---- MODULE Spec2Model ----
(***************************************************************************)
(* Connection/client management of the Docker provider:                     *)
(*   internal/provider/config.go  (Config, NewConfig, Config.Hash,          *)
(*   Config.NewClient, ProviderConfig.getConfig, ProviderConfig.MakeClient) *)
(*                                                                         *)
(* Strings are sequences of byte values, so that strings.HasPrefix,        *)
(* strings.Join, sort.Strings and the FNV-1 digest are computed the way    *)
(* the Go code computes them.  A uint64 is a little-endian sequence of     *)
(* eight bytes (all arithmetic is modulo 2^64).                            *)
(***************************************************************************)
EXTENDS Integers, Sequences, FiniteSets, TLC

(***************************************************************************)
(* Bounds of the model.                                                    *)
(***************************************************************************)
NProcs == 3        \* concurrent resource operations calling MakeClient
MaxOpts == 2       \* longest SSH-options list drawn for the pure functions

Procs == 1..NProcs

(***************************************************************************)
(* String literals (byte values).                                          *)
(***************************************************************************)
Empty == <<>>
Pipe == <<124>>                               \* "|"
SshPrefix == <<115, 115, 104, 58, 47, 47>>    \* "ssh://"
HostTcp == <<116, 99, 112, 58, 47, 47, 100>>  \* "tcp://d"
HostSsh == SshPrefix \o <<104>>               \* "ssh://h"
StrA == <<97>>                                \* "a"
StrB == <<98>>                                \* "b"
StrC == <<99>>                                \* "c"
StrK == <<107>>                               \* "k"
StrP == <<112>>                               \* "p"
StrQ == <<113>>                               \* "q"
StrX == <<120>>                               \* "x"
StrY == <<121>>                               \* "y"
StrKPipeQ == <<107, 124, 113>>                \* "k|q"

Min(a, b) == IF a < b THEN a ELSE b

(***************************************************************************)
(* Go builtins and standard library.                                       *)
(***************************************************************************)
\* copy(dst, src): copies min(len(dst), len(src)) elements into dst and
\* leaves the length of dst as it is.
copy(dst, src) ==
  [i \in 1..Len(dst) |-> IF i <= Len(src) THEN src[i] ELSE dst[i]]

\* strings.HasPrefix
HasPrefix(s, prefix) ==
  /\ Len(s) >= Len(prefix)
  /\ SubSeq(s, 1, Len(prefix)) = prefix

\* Byte-wise lexicographic order of Go strings (s < t).
RECURSIVE StrLess(_, _)
StrLess(s, t) ==
  IF t = <<>> THEN FALSE
  ELSE IF s = <<>> THEN TRUE
  ELSE IF Head(s) # Head(t) THEN Head(s) < Head(t)
  ELSE StrLess(Tail(s), Tail(t))

RECURSIVE Insert(_, _)
Insert(x, sorted) ==
  IF sorted = <<>> THEN <<x>>
  ELSE IF StrLess(x, Head(sorted)) THEN <<x>> \o sorted
  ELSE <<Head(sorted)>> \o Insert(x, Tail(sorted))

\* sort.Strings: ascending order.
RECURSIVE SortStrings(_)
SortStrings(l) ==
  IF l = <<>> THEN <<>> ELSE Insert(Head(l), SortStrings(Tail(l)))

\* strings.Join
RECURSIVE Join(_, _)
Join(elems, sep) ==
  IF elems = <<>> THEN <<>>
  ELSE IF Len(elems) = 1 THEN elems[1]
  ELSE elems[1] \o sep \o Join(Tail(elems), sep)

(***************************************************************************)
(* hash/fnv: fnv.New64 is 64-bit FNV-1 (multiply, then xor).               *)
(***************************************************************************)
FnvOffset64 == <<37, 35, 34, 132, 228, 156, 242, 203>>  \* 0xcbf29ce484222325
FnvPrimeLow == 435            \* 0x1b3, the low 16 bits of the FNV prime
FnvPrimeShift == 5            \* the prime is 2^40 + 0x1b3: 40 bits = 5 bytes

RECURSIVE Xor8(_, _, _)
Xor8(a, b, n) ==
  IF n = 0 THEN 0
  ELSE ((a + b) % 2) + 2 * Xor8(a \div 2, b \div 2, n - 1)

\* h * (2^40 + 0x1b3) mod 2^64, byte by byte with the carries t \div 256.
MulPrime64(h) ==
  LET t1 == h[1] * FnvPrimeLow
      t2 == h[2] * FnvPrimeLow + (t1 \div 256)
      t3 == h[3] * FnvPrimeLow + (t2 \div 256)
      t4 == h[4] * FnvPrimeLow + (t3 \div 256)
      t5 == h[5] * FnvPrimeLow + (t4 \div 256)
      t6 == h[6] * FnvPrimeLow + h[6 - FnvPrimeShift] + (t5 \div 256)
      t7 == h[7] * FnvPrimeLow + h[7 - FnvPrimeShift] + (t6 \div 256)
      t8 == h[8] * FnvPrimeLow + h[8 - FnvPrimeShift] + (t7 \div 256)
  IN  <<t1 % 256, t2 % 256, t3 % 256, t4 % 256,
        t5 % 256, t6 % 256, t7 % 256, t8 % 256>>

\* One Write step of FNV-1: multiply by the prime, then xor the byte in.
FnvStep(h, b) ==
  LET m == MulPrime64(h)
  IN  <<Xor8(m[1], b, 8), m[2], m[3], m[4], m[5], m[6], m[7], m[8]>>

\* hash.Write: the bytes from position k on are folded into h.  Binding
\* next through a one-element set makes each step a value before the
\* following one starts.
RECURSIVE FnvWrite(_, _, _)
FnvWrite(h, bytes, k) ==
  IF k > Len(bytes) THEN h
  ELSE CHOOSE sum \in {FnvWrite(next, bytes, k + 1) :
                         next \in {FnvStep(h, bytes[k])}} : TRUE

Sum64(bytes) == FnvWrite(FnvOffset64, bytes, 1)

(***************************************************************************)
(* Config and the override payload (a schema.ResourceData pointer).        *)
(***************************************************************************)
EmptyConfig ==
  [Host |-> Empty, SSHOpts |-> <<>>, Ca |-> Empty, Cert |-> Empty,
   Key |-> Empty, CertPath |-> Empty]

\* d == nil
NilData == [isNil |-> TRUE, override |-> <<>>]
\* a resource without an override block
NoOverride == [isNil |-> FALSE, override |-> <<>>]

Override(host, opts, ca, cert, key, certPath) ==
  [isNil |-> FALSE,
   override |-> << [host |-> host, ssh_opts |-> opts, ca_material |-> ca,
                    cert_material |-> cert, key_material |-> key,
                    cert_path |-> certPath] >>]

\* NewConfig: the zero configuration, or the first element of "override".
NewConfig(d) ==
  IF Len(d.override) > 0
  THEN LET o == d.override[1]
       IN  [Host |-> o.host,
            SSHOpts |-> [i \in 1..Len(o.ssh_opts) |-> o.ssh_opts[i]],
            Ca |-> o.ca_material, Cert |-> o.cert_material,
            Key |-> o.key_material, CertPath |-> o.cert_path]
  ELSE EmptyConfig

\* Config.Hash.  The local slice SSHOpts is declared without a length, the
\* receiver's options are copied into it and it is sorted; the receiver is
\* not written.  The result holds the bytes given to the hash, the digest
\* and the receiver as the call leaves it.
HashCall_unsorted(c) ==
  LET input == Join(<<c.Host, c.Ca, c.Cert, c.Key, c.CertPath,
                      Join(c.SSHOpts, Pipe)>>, Pipe)
  IN  [input |-> input, sum |-> Sum64(input), c |-> c]

HashCall(c) ==
  LET SSHOpts == SortStrings(copy(<<>>, c.SSHOpts))
      input == Join(<<c.Host, c.Ca, c.Cert, c.Key, c.CertPath,
                      Join(SSHOpts, Pipe)>>, Pipe)
  IN  [input |-> input, sum |-> Sum64(input), c |-> c]

Hash(c) == HashCall(c).sum

\* getConfig, lines 229-246 without the SSH options: a field of the
\* resource configuration replaces the default's when it is not empty.
overrideFields_hostOnly(config, resourceConfig) ==
  [config EXCEPT
     !.Host = IF resourceConfig.Host # Empty
              THEN resourceConfig.Host ELSE config.Host]

overrideFields(config, resourceConfig) ==
  [config EXCEPT
     !.Host = IF resourceConfig.Host # Empty
              THEN resourceConfig.Host ELSE config.Host,
     !.Ca = IF resourceConfig.Ca # Empty
            THEN resourceConfig.Ca ELSE config.Ca,
     !.Cert = IF resourceConfig.Cert # Empty
              THEN resourceConfig.Cert ELSE config.Cert,
     !.Key = IF resourceConfig.Key # Empty
             THEN resourceConfig.Key ELSE config.Key,
     !.CertPath = IF resourceConfig.CertPath # Empty
                  THEN resourceConfig.CertPath ELSE config.CertPath]

\* ProviderConfig.getConfig run without interference.  config is a shallow
\* copy of *c.DefaultConfig, so config.SSHOpts and c.DefaultConfig.SSHOpts
\* are the same backing array: both copy calls write into that array.  The
\* result holds the returned configuration and the default as the call
\* leaves it.
getConfig(DefaultCfg, d) ==
  LET backing0 == copy(DefaultCfg.SSHOpts, DefaultCfg.SSHOpts)
      resourceConfig == NewConfig(d)
      backing == IF ~d.isNil /\ Len(resourceConfig.SSHOpts) # 0
                 THEN copy(backing0, resourceConfig.SSHOpts)
                 ELSE backing0
      shallow == [DefaultCfg EXCEPT !.SSHOpts = backing]
  IN  [config |-> IF d.isNil THEN shallow
                  ELSE overrideFields(shallow, resourceConfig),
       DefaultConfig |-> shallow]

(***************************************************************************)
(* Clients and the outcomes of the collaborators.                          *)
(***************************************************************************)
ErrNone == "nil"
ErrPair == "cert_material, and key_material must be specified"
ErrCertPath == "cert_path must not be specified"
ErrTLS == "buildHTTPClientFromBytes"
ErrNewClient == "client.NewClientWithOpts"
ErrHelper == "connhelper.GetConnectionHelper"
ErrPing == "error pinging Docker server"

\* the nil client pointer
NilClient ==
  [id |-> 0, strategy |-> "nil", host |-> Empty, tls |-> "none",
   helperURL |-> Empty, helperOpts |-> <<>>]

\* A constructed client: who built it, the branch that built it, the host
\* it is bound to, its TLS configuration and the inputs of its SSH helper.
Client(id, strategy, host, tls, helperURL, helperOpts) ==
  [id |-> id, strategy |-> strategy, host |-> host, tls |-> tls,
   helperURL |-> helperURL, helperOpts |-> helperOpts]

\* What the collaborators answer during one construction:
\*   tls    - buildHTTPClientFromBytes (X509KeyPair, AppendCertsFromPEM)
\*   client - client.NewClientWithOpts
\*   helper - connhelper.GetConnectionHelper[WithSSHOpts]
Outcomes == [tls : {"ok", "err"}, client : {"ok", "err"},
             helper : {"helper", "none", "err"}]

\* buildHTTPClientFromBytes: verification is skipped without CA material.
buildHTTPClientFromBytes(caPEMCert, out) ==
  IF out.tls = "err" THEN [tls |-> "none", err |-> ErrTLS]
  ELSE [tls |-> IF Len(caPEMCert) = 0 THEN "InsecureSkipVerify" ELSE "RootCAs",
        err |-> ErrNone]

\* client.NewClientWithOpts
NewClientWithOpts(cl, out) ==
  IF out.client = "ok" THEN [client |-> cl, err |-> ErrNone]
  ELSE [client |-> NilClient, err |-> ErrNewClient]

\* Lines 153 and 267: one of the two inline TLS materials is missing.
missingMaterial(c) == c.Cert = Empty \/ c.Key = Empty

\* Config.NewClient
NewClient(c, out, id) ==
  IF c.Cert # Empty \/ c.Key # Empty
  THEN IF missingMaterial(c)
       THEN [client |-> NilClient, err |-> ErrPair]
       ELSE IF c.CertPath # Empty
       THEN [client |-> NilClient, err |-> ErrCertPath]
       ELSE LET http == buildHTTPClientFromBytes(c.Ca, out)
            IN  IF http.err # ErrNone
                THEN [client |-> NilClient, err |-> http.err]
                ELSE NewClientWithOpts(
                       Client(id, "inline", c.Host, http.tls, Empty, <<>>), out)
  ELSE IF c.CertPath # Empty
  THEN NewClientWithOpts(Client(id, "certdir", c.Host, "files", Empty, <<>>), out)
  ELSE IF out.helper = "err"
  THEN [client |-> NilClient, err |-> ErrHelper]
  ELSE IF out.helper = "helper"
  THEN NewClientWithOpts(Client(id, "ssh", c.Host, "none", c.Host, c.SSHOpts), out)
  ELSE NewClientWithOpts(Client(id, "direct", c.Host, "none", Empty, <<>>), out)

\* ProviderConfig.MakeClient, lines 266-319: the construction on a cache
\* miss.  returned tells that the function has returned (nil, err);
\* otherwise it goes on to LoadOrStore with dockerClient.  helper is the
\* answer of the SSH helper resolution when the branch asked for it.
buildClient(config, out, id) ==
  IF config.Cert # Empty \/ config.Key # Empty
  THEN IF missingMaterial(config)
       THEN [returned |-> TRUE, dockerClient |-> NilClient, err |-> ErrPair,
             helper |-> "unasked"]
       ELSE IF config.CertPath # Empty
       THEN [returned |-> TRUE, dockerClient |-> NilClient,
             err |-> ErrCertPath, helper |-> "unasked"]
       ELSE LET http == buildHTTPClientFromBytes(config.Ca, out)
            IN  IF http.err # ErrNone
                THEN [returned |-> TRUE, dockerClient |-> NilClient,
                      err |-> http.err, helper |-> "unasked"]
                ELSE \* dockerClient, _ = client.NewClientWithOpts(...)
                     [returned |-> FALSE,
                      dockerClient |->
                        NewClientWithOpts(
                          Client(id, "inline", config.Host, http.tls, Empty, <<>>),
                          out).client,
                      err |-> ErrNone, helper |-> "unasked"]
  ELSE IF config.CertPath # Empty
  THEN LET r == NewClientWithOpts(
                  Client(id, "certdir", config.Host, "files", Empty, <<>>), out)
       IN  [returned |-> r.err # ErrNone, dockerClient |-> r.client,
            err |-> r.err, helper |-> "unasked"]
  ELSE IF HasPrefix(config.Host, SshPrefix)
  THEN \* helper, err := connhelper.GetConnectionHelper(config.Host)
       IF out.helper = "err"
       THEN [returned |-> TRUE, dockerClient |-> NilClient, err |-> ErrHelper,
             helper |-> "err"]
       ELSE IF out.helper = "helper"
       THEN [returned |-> FALSE,
             dockerClient |->
               NewClientWithOpts(
                 Client(id, "ssh", config.Host, "none", config.Host, <<>>),
                 out).client,
             err |-> ErrNone, helper |-> "helper"]
       ELSE [returned |-> FALSE, dockerClient |-> NilClient, err |-> ErrNone,
             helper |-> "none"]
  ELSE LET r == NewClientWithOpts(
                  Client(id, "direct", config.Host, "none", Empty, <<>>), out)
       IN  [returned |-> r.err # ErrNone, dockerClient |-> r.client,
            err |-> r.err, helper |-> "unasked"]

(***************************************************************************)
(* Inputs of the concurrent model.                                         *)
(***************************************************************************)
DefPlain ==
  [Host |-> HostTcp, SSHOpts |-> <<StrX, StrY>>, Ca |-> Empty, Cert |-> Empty,
   Key |-> Empty, CertPath |-> Empty]
Defaults == {DefPlain}

\* ssh:// host with SSH options
OvSsh == Override(HostSsh, <<StrA, StrB>>, Empty, Empty, Empty, Empty)
\* certificate directory "k|q"
OvCertDir == Override(Empty, <<>>, Empty, Empty, Empty, StrKPipeQ)
\* key without certificate
OvKeyOnly == Override(Empty, <<>>, Empty, Empty, StrK, Empty)
\* certificate "|" and key "k" together with the directory "q"; the bytes
\* hashed for it are those hashed for OvCertDir
OvBoth == Override(Empty, <<>>, Empty, Pipe, StrK, StrQ)
\* certificate "c" and key "k": the inline TLS branch
OvInline == Override(Empty, <<>>, Empty, StrC, StrK, Empty)
Payloads == {NilData, OvSsh, OvCertDir, OvKeyOnly, OvBoth, OvInline}

(***************************************************************************)
(* State.                                                                  *)
(***************************************************************************)
VARIABLES
  DefaultConfig,  \* ProviderConfig.DefaultConfig; SSHOpts is the backing
                  \* array every resolved configuration shares
  clientCache,    \* ProviderConfig.clientCache: fingerprint -> client
  pc,             \* position of each MakeClient call
  call,           \* locals and result of each MakeClient call
  Default0,       \* history: DefaultConfig at provider start-up
  fnArgs,         \* arguments of a function applied on its own
  fnRes,          \* its result
  vol             \* a resourceDockerVolumeDelete call: the resource and
                  \* the wait for its removal

vars == <<DefaultConfig, clientCache, pc, call, Default0, fnArgs, fnRes, vol>>

ZeroHash == <<0, 0, 0, 0, 0, 0, 0, 0>>

\* The scalar fields of a configuration (config := *c.DefaultConfig copies
\* them; the slice header it copies still points to the default's array).
Scalars(c) ==
  [Host |-> c.Host, Ca |-> c.Ca, Cert |-> c.Cert, Key |-> c.Key,
   CertPath |-> c.CertPath]

IdleCall ==
  [d |-> NilData, config |-> Scalars(EmptyConfig), i |-> 1, n |-> 0,
   configHash |-> ZeroHash, found |-> FALSE, helper |-> "unasked",
   dockerClient |-> NilClient, stored |-> FALSE, pinged |-> FALSE,
   ret |-> NilClient, err |-> ErrNone, sshOpts |-> <<>>]

\* The configuration a call holds: its own scalar fields and the SSH
\* options array it shares with the default.
ConfigOf(c) ==
  [Host |-> c.config.Host, SSHOpts |-> DefaultConfig.SSHOpts,
   Ca |-> c.config.Ca, Cert |-> c.config.Cert, Key |-> c.config.Key,
   CertPath |-> c.config.CertPath]

\* A panic in one goroutine ends the provider process.
crashed == \E p \in Procs : pc[p] = "panic"

NoFn == [op |-> "none"]

(***************************************************************************)
(* resource_docker_volume.go: the deletion of a volume.                    *)
(***************************************************************************)
\* seconds
volumeReadRefreshTimeout == 30
volumeReadRefreshWaitBeforeRefreshes == 5
volumeReadRefreshDelay == 2

\* d.Id() of the volume resource
VolName == <<118>>    \* "v"

ErrRemove == "VolumeRemove"
ErrTimeout == "timeout while waiting for state to become 'removed'"
ErrCtx == "context canceled"

\* The delete call before it starts.
\*   d       - the resource's data (its override payload), id its ID
\*   pc      - resourceDockerVolumeDelete and the wait it runs: "idle",
\*             "waiting", "grace" (timed out, a refresh in flight), "return"
\*             (the wait has returned err), "done"
\*   rpc     - the refreshing goroutine of the wait: "off", "delay",
\*             "refresh", "wait", "exit"
\*   elapsed - seconds since the wait began
\*   last    - what the last refresh gave: "", "in_use", "removed",
\*             "error" (VolumeRemove failed otherwise), "no_client"
\*   tries   - VolumeRemove calls so far; removed - one has succeeded
VolIdle(d) ==
  [d |-> d, id |-> VolName, pc |-> "idle", rpc |-> "off", elapsed |-> 0,
   last |-> "", err |-> ErrNone, tries |-> 0, removed |-> FALSE]

Init ==
  /\ DefaultConfig \in Defaults
  /\ Default0 = DefaultConfig
  /\ clientCache = [h \in {} |-> NilClient]
  /\ pc = [p \in Procs |-> "idle"]
  /\ call = [p \in Procs |-> IdleCall]
  /\ fnArgs = NoFn
  /\ fnRes = NoFn
  /\ vol = VolIdle(NilData)

(***************************************************************************)
(* ProviderConfig.MakeClient.  Resolution, hashing and the strategy branch *)
(* work on the call's locals and on the scalar fields of the default,      *)
(* which nothing writes, so each action runs the code up to and including  *)
(* one access to shared state: an element of the SSH options array, or the *)
(* cache.                                                                  *)
(***************************************************************************)
\* Lines 257-319 for the call whose locals are c: the fingerprint and the
\* cache lookup; a hit returns the cached client, a miss runs the strategy
\* branch and either returns its error or goes on to LoadOrStore.
Lookup_pingOnHit(p, c) ==
  LET configHash == Hash(ConfigOf(c))
  IN  IF configHash \in DOMAIN clientCache
      THEN /\ call' = [call EXCEPT ![p] =
                         [c EXCEPT !.configHash = configHash, !.found = TRUE,
                            !.dockerClient = clientCache[configHash]]]
           /\ pc' = [pc EXCEPT ![p] = "ping"]
      ELSE \E out \in Outcomes :
             LET b == buildClient(ConfigOf(c), out, p)
             IN  /\ call' = [call EXCEPT ![p] =
                               [c EXCEPT !.configHash = configHash,
                                  !.dockerClient = b.dockerClient,
                                  !.helper = b.helper, !.err = b.err]]
                 /\ pc' = [pc EXCEPT ![p] =
                             IF b.returned THEN "done" ELSE "store"]

Lookup(p, c) ==
  LET configHash == Hash(ConfigOf(c))
  IN  IF configHash \in DOMAIN clientCache
      THEN /\ call' = [call EXCEPT ![p] =
                         [c EXCEPT !.configHash = configHash, !.found = TRUE,
                            !.ret = clientCache[configHash]]]
           /\ pc' = [pc EXCEPT ![p] = "done"]
      ELSE \E out \in Outcomes :
             LET b == buildClient(ConfigOf(c), out, p)
             IN  /\ call' = [call EXCEPT ![p] =
                               [c EXCEPT !.configHash = configHash,
                                  !.dockerClient = b.dockerClient,
                                  !.helper = b.helper, !.err = b.err]]
                 /\ pc' = [pc EXCEPT ![p] =
                             IF b.returned THEN "done" ELSE "store"]

\* Line 256 and what follows it up to the first shared access.  getConfig
\* resolves the scalar fields into the local config.  With SSH options in
\* the override, copy (line 233) starts writing them into the array shared
\* with the default; without, the call goes on to the cache lookup.
Call(p, d) ==
  /\ ~crashed
  /\ pc[p] = "idle"
  /\ LET resourceConfig == NewConfig(d)
         fields == IF d.isNil THEN Scalars(DefaultConfig)
                   ELSE overrideFields(Scalars(DefaultConfig), resourceConfig)
         n == IF ~d.isNil /\ Len(resourceConfig.SSHOpts) # 0
              THEN Min(Len(DefaultConfig.SSHOpts), Len(resourceConfig.SSHOpts))
              ELSE 0
         c == [IdleCall EXCEPT !.d = d, !.config = fields, !.n = n]
     IN  IF n = 0
         THEN /\ Lookup(p, c)
              /\ UNCHANGED DefaultConfig
         ELSE /\ DefaultConfig' =
                   [DefaultConfig EXCEPT !.SSHOpts[1] = resourceConfig.SSHOpts[1]]
              /\ call' = [call EXCEPT ![p] = [c EXCEPT !.i = 2]]
              /\ pc' = [pc EXCEPT ![p] = IF n > 1 THEN "copy" ELSE "load"]
  /\ UNCHANGED <<clientCache, Default0, fnArgs, fnRes, vol>>

\* Line 233, copy(config.SSHOpts, resourceConfig.SSHOpts), the elements
\* after the first: one element is written into the shared array.  The
\* writes of concurrent calls are not synchronised and interleave element
\* by element.
CopyElement(p) ==
  /\ ~crashed
  /\ pc[p] = "copy"
  /\ LET i == call[p].i
     IN  /\ DefaultConfig' =
              [DefaultConfig EXCEPT !.SSHOpts[i] = NewConfig(call[p].d).SSHOpts[i]]
         /\ call' = [call EXCEPT ![p].i = i + 1]
         /\ pc' = [pc EXCEPT ![p] = IF i + 1 > call[p].n THEN "load" ELSE "copy"]
  /\ UNCHANGED <<clientCache, Default0, fnArgs, fnRes, vol>>

\* Lines 257-319 of a call that has written SSH options.
Load(p) ==
  /\ ~crashed
  /\ pc[p] = "load"
  /\ Lookup(p, call[p])
  /\ UNCHANGED <<DefaultConfig, clientCache, Default0, fnArgs, fnRes, vol>>

\* Line 321: c.clientCache.LoadOrStore(configHash, dockerClient); what it
\* returns is dropped.  sshOpts is history: the SSH options the storing
\* call's configuration holds when its client becomes the entry.
Store_overwrite(p) ==
  /\ ~crashed
  /\ pc[p] = "store"
  /\ LET k == call[p].configHash
     IN  /\ clientCache' =
              [h \in DOMAIN clientCache \cup {k} |->
                 IF h = k THEN call[p].dockerClient ELSE clientCache[h]]
         /\ call' = [call EXCEPT ![p].stored = TRUE,
                                 ![p].sshOpts = DefaultConfig.SSHOpts]
  /\ pc' = [pc EXCEPT ![p] = "ping"]
  /\ UNCHANGED <<DefaultConfig, Default0, fnArgs, fnRes, vol>>

Store(p) ==
  /\ ~crashed
  /\ pc[p] = "store"
  /\ LET k == call[p].configHash
     IN  IF k \in DOMAIN clientCache
         THEN UNCHANGED <<clientCache, call>>
         ELSE /\ clientCache' =
                   [h \in DOMAIN clientCache \cup {k} |->
                      IF h = k THEN call[p].dockerClient ELSE clientCache[h]]
              /\ call' = [call EXCEPT ![p].stored = TRUE,
                                      ![p].sshOpts = DefaultConfig.SSHOpts]
  /\ pc' = [pc EXCEPT ![p] = "ping"]
  /\ UNCHANGED <<DefaultConfig, Default0, fnArgs, fnRes, vol>>

\* Lines 323-329: dockerClient.Ping(ctx).  On a nil client the call
\* dereferences nil and panics; pong is "err" when the daemon is not
\* reached or ctx is cancelled.
Ping_evict(p, pong) ==
  /\ ~crashed
  /\ pc[p] = "ping"
  /\ IF call[p].dockerClient = NilClient
     THEN /\ pc' = [pc EXCEPT ![p] = "panic"]
          /\ UNCHANGED <<call, clientCache>>
     ELSE /\ pc' = [pc EXCEPT ![p] = "done"]
          /\ call' = [call EXCEPT ![p] =
                        [@ EXCEPT !.pinged = TRUE,
                           !.ret = IF pong = "ok" THEN call[p].dockerClient
                                   ELSE NilClient,
                           !.err = IF pong = "ok" THEN ErrNone ELSE ErrPing]]
          /\ clientCache' =
               IF pong = "ok" THEN clientCache
               ELSE [h \in DOMAIN clientCache \ {call[p].configHash} |->
                       clientCache[h]]
  /\ UNCHANGED <<DefaultConfig, Default0, fnArgs, fnRes, vol>>

Ping(p, pong) ==
  /\ ~crashed
  /\ pc[p] = "ping"
  /\ IF call[p].dockerClient = NilClient
     THEN /\ pc' = [pc EXCEPT ![p] = "panic"]
          /\ UNCHANGED call
     ELSE /\ pc' = [pc EXCEPT ![p] = "done"]
          /\ call' = [call EXCEPT ![p] =
                        [@ EXCEPT !.pinged = TRUE,
                           !.ret = IF pong = "ok" THEN call[p].dockerClient
                                   ELSE NilClient,
                           !.err = IF pong = "ok" THEN ErrNone ELSE ErrPing]]
  /\ UNCHANGED <<DefaultConfig, clientCache, Default0, fnArgs, fnRes, vol>>

Next ==
  \/ \E p \in Procs, d \in Payloads : Call(p, d)
  \/ \E p \in Procs : CopyElement(p)
  \/ \E p \in Procs : Load(p)
  \/ \E p \in Procs : Store(p)
  \/ \E p \in Procs, pong \in {"ok", "err"} : Ping(p, pong)

Spec == Init /\ [][Next]_vars

(***************************************************************************)
(* The functions applied on their own: getConfig, Config.Hash and the two  *)
(* client constructions, on arguments drawn from bounded sets.             *)
(***************************************************************************)
SeqsUpTo(S, n) == UNION {[1..k -> S] : k \in 0..n}

Perms(n) == {f \in [1..n -> 1..n] : \A i, j \in 1..n : f[i] = f[j] => i = j}

FnDefaults ==
  {[Host |-> h, SSHOpts |-> o, Ca |-> ca, Cert |-> ce, Key |-> k,
    CertPath |-> cp] :
     h \in {Empty, HostTcp}, o \in SeqsUpTo({StrX, StrY}, MaxOpts),
     ca \in {Empty, StrX}, ce \in {Empty, StrX}, k \in {Empty, StrX},
     cp \in {Empty, StrX}}

FnData ==
  {NilData, NoOverride} \cup
  {Override(h, o, ca, ce, k, cp) :
     h \in {Empty, HostSsh}, o \in SeqsUpTo({StrA, StrB}, MaxOpts),
     ca \in {Empty, StrA}, ce \in {Empty, StrC}, k \in {Empty, StrK},
     cp \in {Empty, StrP}}

FnHashConfigs ==
  {[Host |-> HostTcp, SSHOpts |-> o, Ca |-> ca, Cert |-> Empty, Key |-> Empty,
    CertPath |-> cp] :
     o \in SeqsUpTo({StrA, StrB, StrX}, MaxOpts), ca \in {Empty, StrA},
     cp \in {Empty, StrKPipeQ}}

FnClientConfigs ==
  {[Host |-> h, SSHOpts |-> o, Ca |-> ca, Cert |-> ce, Key |-> k,
    CertPath |-> cp] :
     h \in {HostTcp, HostSsh}, o \in {<<>>, <<StrA>>},
     ca \in {Empty, StrA}, ce \in {Empty, StrC}, k \in {Empty, StrK},
     cp \in {Empty, StrP}}

FnArgs ==
  {[op |-> "getConfig", def |-> def, d |-> d] : def \in FnDefaults, d \in FnData}
  \cup
  {[op |-> "Hash", c |-> c, perm |-> f] :
     c \in FnHashConfigs, f \in Perms(MaxOpts)}
  \cup
  {[op |-> "NewClient", c |-> c, out |-> out] :
     c \in FnClientConfigs, out \in Outcomes}

\* c with its SSH options listed in the order f (an order of MaxOpts
\* positions cut down to the options the list has).
Permuted(c, f) ==
  LET idx == SelectSeq([i \in 1..MaxOpts |-> f[i]],
                       LAMBDA j : j <= Len(c.SSHOpts))
  IN  [c EXCEPT !.SSHOpts = [i \in 1..Len(c.SSHOpts) |-> c.SSHOpts[idx[i]]]]

InitFn ==
  /\ DefaultConfig = DefPlain
  /\ Default0 = DefaultConfig
  /\ clientCache = [h \in {} |-> NilClient]
  /\ pc = [p \in Procs |-> "idle"]
  /\ call = [p \in Procs |-> IdleCall]
  /\ fnArgs \in FnArgs
  /\ fnRes = NoFn
  /\ vol = VolIdle(NilData)

FnGetConfig ==
  /\ fnArgs.op = "getConfig"
  /\ fnRes = NoFn
  /\ fnRes' = [op |-> "getConfig", r |-> getConfig(fnArgs.def, fnArgs.d)]
  /\ UNCHANGED <<DefaultConfig, clientCache, pc, call, Default0, fnArgs, vol>>

FnHash ==
  /\ fnArgs.op = "Hash"
  /\ fnRes = NoFn
  /\ fnRes' = [op |-> "Hash", r |-> HashCall(fnArgs.c),
               rPerm |-> HashCall(Permuted(fnArgs.c, fnArgs.perm))]
  /\ UNCHANGED <<DefaultConfig, clientCache, pc, call, Default0, fnArgs, vol>>

FnNewClient ==
  /\ fnArgs.op = "NewClient"
  /\ fnRes = NoFn
  /\ fnRes' = [op |-> "NewClient", r |-> NewClient(fnArgs.c, fnArgs.out, 1),
               made |-> buildClient(fnArgs.c, fnArgs.out, 1)]
  /\ UNCHANGED <<DefaultConfig, clientCache, pc, call, Default0, fnArgs, vol>>

NextFn == FnGetConfig \/ FnHash \/ FnNewClient

SpecFn == InitFn /\ [][NextFn]_vars

(***************************************************************************)
(* resourceDockerVolumeDelete.  The wait (retry.StateChangeConf) runs the  *)
(* refresh function in a goroutine: first after Delay, then again after a  *)
(* pause of MinTimeout at least while the state reported is the pending    *)
(* one, and returns on the target state, on an error of the refresh, when  *)
(* the context is cancelled or when Timeout has passed.  Every refresh is   *)
(* one MakeClient call followed by one VolumeRemove call.                  *)
(***************************************************************************)
\* The goroutine of the refresh function makes its MakeClient calls as
\* this caller.
VolProc == 1

\* What client.VolumeRemove answers: nil, an error whose message holds
\* "volume is in use", another error.
RemoveOutcomes == {"ok", "in_use", "error"}

\* The pause before the next refresh: MinTimeout, or more once the wait
\* backs off.
Waits == {volumeReadRefreshWaitBeforeRefreshes,
          2 * volumeReadRefreshWaitBeforeRefreshes}

InitVolume ==
  /\ DefaultConfig \in Defaults
  /\ Default0 = DefaultConfig
  /\ clientCache = [h \in {} |-> NilClient]
  /\ pc = [p \in Procs |-> "idle"]
  /\ call = [p \in Procs |-> IdleCall]
  /\ fnArgs = NoFn
  /\ fnRes = NoFn
  /\ vol \in {VolIdle(d) : d \in Payloads}

\* Lines 147-159: the wait starts.
VolDelete ==
  /\ ~crashed
  /\ vol.pc = "idle"
  /\ vol' = [vol EXCEPT !.pc = "waiting", !.rpc = "delay"]
  /\ UNCHANGED <<DefaultConfig, clientCache, pc, call, Default0, fnArgs, fnRes>>

\* Delay passes before the first refresh.
VolDelay ==
  /\ ~crashed
  /\ vol.pc = "waiting"
  /\ vol.rpc = "delay"
  /\ vol' = [vol EXCEPT !.rpc = "refresh",
                        !.elapsed = volumeReadRefreshDelay]
  /\ UNCHANGED <<DefaultConfig, clientCache, pc, call, Default0, fnArgs, fnRes>>

\* Lines 172-187 and the wait's reading of what the refresh returns.
\* MakeClient has returned: its error ends the refresh; with a client,
\* VolumeRemove is called and its outcome becomes the state reported.  A
\* wait that is still waiting goes on for "in_use" and returns otherwise;
\* a wait that has timed out takes "removed" and returns the timeout
\* otherwise; a wait that has returned drops the result.
VolRemove(outcome) ==
  /\ ~crashed
  /\ vol.rpc = "refresh"
  /\ pc[VolProc] = "done"
  /\ LET errC == call[VolProc].err
         res == IF errC # ErrNone
                THEN [last |-> "no_client", err |-> errC]
                ELSE IF outcome = "ok"
                THEN [last |-> "removed", err |-> ErrNone]
                ELSE IF outcome = "in_use"
                THEN [last |-> "in_use", err |-> ErrNone]
                ELSE [last |-> "error", err |-> ErrRemove]
         ran == [vol EXCEPT !.last = res.last,
                   !.tries = IF errC = ErrNone THEN @ + 1 ELSE @,
                   !.removed = @ \/ res.last = "removed"]
     IN  IF errC = ErrNone /\ call[VolProc].ret = NilClient
         THEN \* VolumeRemove on the nil client
              /\ pc' = [pc EXCEPT ![VolProc] = "panic"]
              /\ UNCHANGED <<call, vol>>
         ELSE /\ pc' = [pc EXCEPT ![VolProc] = "idle"]
              /\ call' = [call EXCEPT ![VolProc] = IdleCall]
              /\ vol' =
                   IF vol.pc = "waiting"
                   THEN IF res.last = "in_use"
                        THEN [ran EXCEPT !.rpc = "wait"]
                        ELSE [ran EXCEPT !.rpc = "exit", !.pc = "return",
                                         !.err = res.err]
                   ELSE IF vol.pc = "grace"
                   THEN [ran EXCEPT !.rpc = "exit", !.pc = "return",
                            !.err = IF res.last = "removed" THEN ErrNone
                                    ELSE ErrTimeout]
                   ELSE [ran EXCEPT !.rpc = "exit"]
  /\ UNCHANGED <<DefaultConfig, clientCache, Default0, fnArgs, fnRes>>

\* The pause between two refreshes; Timeout passes during it or the next
\* refresh starts.
VolWait(w) ==
  /\ ~crashed
  /\ vol.pc = "waiting"
  /\ vol.rpc = "wait"
  /\ vol' = IF vol.elapsed + w >= volumeReadRefreshTimeout
            THEN [vol EXCEPT !.elapsed = volumeReadRefreshTimeout,
                             !.rpc = "exit", !.pc = "return",
                             !.err = ErrTimeout]
            ELSE [vol EXCEPT !.elapsed = @ + w, !.rpc = "refresh"]
  /\ UNCHANGED <<DefaultConfig, clientCache, pc, call, Default0, fnArgs, fnRes>>

\* Timeout passes while a refresh is running: the wait gives the refresh
\* in flight a grace period.
VolTimeout ==
  /\ ~crashed
  /\ vol.pc = "waiting"
  /\ vol.rpc = "refresh"
  /\ vol' = [vol EXCEPT !.elapsed = volumeReadRefreshTimeout, !.pc = "grace"]
  /\ UNCHANGED <<DefaultConfig, clientCache, pc, call, Default0, fnArgs, fnRes>>

\* The grace period ends before the refresh in flight does.
VolGraceEnd ==
  /\ ~crashed
  /\ vol.pc = "grace"
  /\ vol' = [vol EXCEPT !.pc = "return", !.err = ErrTimeout]
  /\ UNCHANGED <<DefaultConfig, clientCache, pc, call, Default0, fnArgs, fnRes>>

\* ctx is cancelled while the wait is waiting; a refresh in flight runs on
\* and its result is dropped.
VolCancel ==
  /\ ~crashed
  /\ vol.pc = "waiting"
  /\ vol' = [vol EXCEPT !.pc = "return", !.err = ErrCtx,
                        !.rpc = IF @ = "refresh" THEN @ ELSE "exit"]
  /\ UNCHANGED <<DefaultConfig, clientCache, pc, call, Default0, fnArgs, fnRes>>

\* Lines 160-165: an error of the wait is returned; without one the
\* resource ID is cleared.
VolReturn_always ==
  /\ ~crashed
  /\ vol.pc = "return"
  /\ vol' = [vol EXCEPT !.pc = "done", !.id = Empty]
  /\ UNCHANGED <<DefaultConfig, clientCache, pc, call, Default0, fnArgs, fnRes>>

VolReturn ==
  /\ ~crashed
  /\ vol.pc = "return"
  /\ vol' = [vol EXCEPT !.pc = "done",
                        !.id = IF vol.err = ErrNone THEN Empty ELSE @]
  /\ UNCHANGED <<DefaultConfig, clientCache, pc, call, Default0, fnArgs, fnRes>>

\* Line 171: the steps of the refresh's MakeClient call.
NextVolume ==
  \/ VolDelete
  \/ VolDelay
  \/ vol.rpc = "refresh" /\ Call(VolProc, vol.d)
  \/ vol.rpc = "refresh" /\ CopyElement(VolProc)
  \/ vol.rpc = "refresh" /\ Load(VolProc)
  \/ vol.rpc = "refresh" /\ Store(VolProc)
  \/ \E pong \in {"ok", "err"} : vol.rpc = "refresh" /\ Ping(VolProc, pong)
  \/ \E outcome \in RemoveOutcomes : VolRemove(outcome)
  \/ \E w \in Waits : VolWait(w)
  \/ VolTimeout
  \/ VolGraceEnd
  \/ VolCancel
  \/ VolReturn

SpecVolume == InitVolume /\ [][NextVolume]_vars

(***************************************************************************)
(* Properties.                                                             *)
(***************************************************************************)
\* A call has returned a handle.
Returned(p) ==
  pc[p] = "done" /\ call[p].err = ErrNone /\ call[p].ret # NilClient

\* C1: two MakeClient calls made one after the other with field-wise
\* identical resolved configurations that both return a handle return the
\* identical handle, and the second one is served from the cache.  Here q
\* starts and returns in one step after p has returned, its scalar fields
\* equal p's, and the SSH options both resolve are the untouched default's.
C1_SequentialCallsShareHandle ==
  [][\A p, q \in Procs :
       (/\ p # q
        /\ Returned(p)
        /\ pc[q] = "idle"
        /\ pc'[q] = "done"
        /\ call'[q].err = ErrNone
        /\ call'[q].ret # NilClient
        /\ call'[q].config = call[p].config
        /\ call[p].n = 0
        /\ DefaultConfig' = Default0)
       => call'[q].found /\ call'[q].ret = call[p].ret]_vars

\* C2: of the calls with one fingerprint that all missed the cache, every
\* one that returns a handle returns the single cached handle.
C2_RacingBuildersShareHandle ==
  \A p, q \in Procs :
    (/\ Returned(p) /\ Returned(q)
     /\ ~call[p].found /\ ~call[q].found
     /\ call[p].configHash = call[q].configHash)
    => /\ call[p].configHash \in DOMAIN clientCache
       /\ call[p].ret = clientCache[call[p].configHash]
       /\ call[q].ret = call[p].ret

\* C3: the provider default configuration keeps the value it had at
\* start-up, every element of its SSH options included.
C3_DefaultUnchanged == DefaultConfig = Default0

\* The SSH options an override payload lists.
OverrideOpts(d) ==
  IF Len(d.override) > 0 THEN d.override[1].ssh_opts ELSE <<>>

\* C4: the SSH options getConfig returns are the whole override list when
\* that list is not empty and the default's list otherwise.
C4_SSHOptsWholeOverrideOrDefault ==
  fnRes.op = "getConfig" =>
    fnRes.r.config.SSHOpts =
      IF Len(OverrideOpts(fnArgs.d)) > 0 THEN OverrideOpts(fnArgs.d)
      ELSE fnArgs.def.SSHOpts

\* What the override payload gives for each scalar field; the empty string
\* without a payload or with an empty override list.
OverrideScalars(d) ==
  IF Len(d.override) > 0
  THEN [Host |-> d.override[1].host, Ca |-> d.override[1].ca_material,
        Cert |-> d.override[1].cert_material,
        Key |-> d.override[1].key_material,
        CertPath |-> d.override[1].cert_path]
  ELSE [Host |-> Empty, Ca |-> Empty, Cert |-> Empty, Key |-> Empty,
        CertPath |-> Empty]

ScalarFields == {"Host", "Ca", "Cert", "Key", "CertPath"}

\* C5: in each of host, CA, cert, key and certPath the configuration
\* getConfig returns holds the override's value when that is not empty and
\* the default's otherwise.
C5_ScalarPrecedence ==
  fnRes.op = "getConfig" =>
    \A f \in ScalarFields :
      fnRes.r.config[f] =
        IF OverrideScalars(fnArgs.d)[f] # Empty
        THEN OverrideScalars(fnArgs.d)[f]
        ELSE fnArgs.def[f]

\* An override that sets the host and leaves the CA empty over a default
\* with a CA: the host comes from the override, the CA from the default.
C5_Witness ==
  /\ fnRes.op = "getConfig"
  /\ OverrideScalars(fnArgs.d).Host = HostSsh
  /\ OverrideScalars(fnArgs.d).Ca = Empty
  /\ fnArgs.def.Host = HostTcp
  /\ fnArgs.def.Ca = StrX
  /\ fnRes.r.config.Host = HostSsh
  /\ fnRes.r.config.Ca = StrX

\* C6: the bytes Config.Hash hashes are host, CA, cert, key, certPath and
\* the "|"-joined sorted SSH options, joined with "|"; the last segment is
\* empty only for a configuration without SSH options.
C6_HashedBytesHoldSSHOpts ==
  fnRes.op = "Hash" =>
    /\ fnRes.r.input =
         Join(<<fnArgs.c.Host, fnArgs.c.Ca, fnArgs.c.Cert, fnArgs.c.Key,
                fnArgs.c.CertPath, Join(SortStrings(fnArgs.c.SSHOpts), Pipe)>>,
              Pipe)
    /\ Len(fnArgs.c.SSHOpts) > 0 =>
         fnRes.r.input # HashCall([fnArgs.c EXCEPT !.SSHOpts = <<>>]).input

\* C7: Config.Hash gives a configuration and the same configuration with
\* its SSH options permuted the same fingerprint, and leaves the
\* configuration's SSH options in their order.
C7_HashOrderIndependent ==
  fnRes.op = "Hash" =>
    /\ fnRes.r.sum = fnRes.rPerm.sum
    /\ fnRes.r.c.SSHOpts = fnArgs.c.SSHOpts
    /\ fnRes.rPerm.c.SSHOpts = Permuted(fnArgs.c, fnArgs.perm).SSHOpts

\* Two different options hashed in both orders.
C7_Witness ==
  /\ fnRes.op = "Hash"
  /\ Len(fnArgs.c.SSHOpts) >= 2
  /\ fnArgs.c.SSHOpts[1] # fnArgs.c.SSHOpts[2]
  /\ Permuted(fnArgs.c, fnArgs.perm).SSHOpts # fnArgs.c.SSHOpts
  /\ fnRes.r.sum = fnRes.rPerm.sum

\* The call of p has stored its client and its ping has failed.
FailedPing(p) ==
  /\ pc[p] = "done"
  /\ call[p].stored
  /\ call[p].pinged
  /\ call[p].err = ErrPing

\* The entry of p's fingerprint is the client p stored.
EntryKept(p) ==
  /\ call[p].ret = NilClient
  /\ call[p].configHash \in DOMAIN clientCache
  /\ clientCache[call[p].configHash] = call[p].dockerClient

\* q runs its cache lookup in this step.
LookupStep(q) ==
  /\ pc[q] \in {"idle", "load"}
  /\ pc'[q] \notin {"idle", "copy", "load"}

\* C8: a call that stored its client and whose ping failed returns an
\* error, its cache entry stays, and every call that looks the same
\* fingerprint up afterwards returns that client with no error and no ping.
C8_FailedPingKeepsEntry ==
  [][/\ \A p \in Procs : FailedPing(p)' => EntryKept(p)'
     /\ \A p, q \in Procs :
          (FailedPing(p) /\ LookupStep(q)
           /\ call'[q].configHash = call[p].configHash)
          => /\ pc'[q] = "done"
             /\ call'[q].found
             /\ call'[q].ret = call[p].dockerClient
             /\ call'[q].err = ErrNone
             /\ ~call'[q].pinged]_vars

\* A failed ping of p and a call q served p's client from the cache.
C8_Witness ==
  \E p, q \in Procs :
    /\ p # q
    /\ FailedPing(p)
    /\ EntryKept(p)
    /\ pc[q] = "done"
    /\ call[q].found
    /\ ~call[q].pinged
    /\ call[q].err = ErrNone
    /\ call[q].configHash = call[p].configHash
    /\ call[q].ret = call[p].dockerClient

\* Exactly one of cert and key, or both together with certPath.
InvalidTLS(c) ==
  \/ (c.Cert = Empty) # (c.Key = Empty)
  \/ c.Cert # Empty /\ c.Key # Empty /\ c.CertPath # Empty

\* C9: a resolved configuration with exactly one of cert and key, or with
\* both and a certPath, makes Config.NewClient and MakeClient return an
\* error; no client is built and nothing is stored.
C9_InvalidTLSIsAnError ==
  /\ \A p \in Procs :
       (pc[p] = "done" /\ InvalidTLS(call[p].config))
       => /\ call[p].err \in {ErrPair, ErrCertPath}
          /\ call[p].ret = NilClient
          /\ call[p].dockerClient = NilClient
          /\ ~call[p].stored
  /\ (fnRes.op = "NewClient" /\ InvalidTLS(fnArgs.c))
     => /\ fnRes.r.err \in {ErrPair, ErrCertPath}
        /\ fnRes.r.client = NilClient

\* C10: without cert, key and certPath, with an ssh:// host and an SSH
\* helper resolution that gives no helper and no error, MakeClient builds
\* the direct client bound to the host string and goes on to cache, ping
\* and return it.
C10_NoHelperFallsThroughToDirect ==
  \A p \in Procs :
    (pc[p] \in {"store", "ping", "done", "panic"} /\ call[p].helper = "none")
    => /\ call[p].dockerClient.strategy = "direct"
       /\ call[p].dockerClient.host = call[p].config.Host
       /\ pc[p] # "panic"

\* C11: the SSH helper of the client MakeClient builds in the SSH branch is
\* resolved from the resolved host and the resolved SSH options.
C11_HelperGetsSSHOpts ==
  (fnRes.op = "NewClient" /\ fnRes.made.dockerClient.strategy = "ssh")
  => /\ fnRes.made.dockerClient.helperURL = fnArgs.c.Host
     /\ fnRes.made.dockerClient.helperOpts = fnArgs.c.SSHOpts

\* C12: a call that finds an entry for its fingerprint returns that entry
\* at once with no error; it runs no strategy branch, builds no client and
\* pings nothing.
C12_HitReturnsAtOnce ==
  [][\A q \in Procs :
       (LookupStep(q) /\ call'[q].configHash \in DOMAIN clientCache)
       => /\ pc'[q] = "done"
          /\ call'[q].found
          /\ call'[q].ret = clientCache[call'[q].configHash]
          /\ call'[q].err = ErrNone
          /\ call'[q].dockerClient = NilClient
          /\ call'[q].helper = "unasked"
          /\ ~call'[q].pinged
          /\ ~call'[q].stored
          /\ clientCache' = clientCache]_vars

\* A call served from the cache with a client another call built.
C12_Witness ==
  \E q \in Procs :
    /\ pc[q] = "done"
    /\ call[q].found
    /\ call[q].ret # NilClient
    /\ call[q].ret.id # q
    /\ call[q].ret = clientCache[call[q].configHash]
    /\ call[q].dockerClient = NilClient

\* C13: a cache entry is write-once: a fingerprint that maps to a handle
\* maps to that handle in every later state, and no entry is removed.
C13_CacheWriteOnce ==
  [][\A h \in DOMAIN clientCache :
       h \in DOMAIN clientCache' /\ clientCache'[h] = clientCache[h]]_vars

\* A call whose LoadOrStore found the fingerprint taken by another call's
\* client, which stayed.
C13_Witness ==
  \E p \in Procs :
    /\ pc[p] \in {"ping", "done"}
    /\ ~call[p].found
    /\ ~call[p].stored
    /\ call[p].dockerClient # NilClient
    /\ call[p].configHash \in DOMAIN clientCache
    /\ clientCache[call[p].configHash] # call[p].dockerClient

\* C14: every failure of client construction inside MakeClient is
\* returned as an error: a call goes on to LoadOrStore and Ping only with
\* the client its branch built, and no call panics.
C14_ConstructionErrorsReturned ==
  \A p \in Procs :
    /\ pc[p] # "panic"
    /\ pc[p] \in {"store", "ping"} => call[p].dockerClient # NilClient

\* C15: every cache entry holds a constructed, non-nil client.
C15_EntriesAreClients ==
  \A h \in DOMAIN clientCache : clientCache[h] # NilClient

\* The elements of a list.
Range(l) == {l[i] : i \in 1..Len(l)}

\* C16: a handle MakeClient returns was built from a configuration equal
\* to the caller's in host, CA, cert, key and certPath and with the same
\* set of SSH options: on a hit the configuration of the call that stored
\* the entry, on a miss the caller's own.
C16_HandleBuiltForCallersConfig ==
  [][/\ \A p, q \in Procs :
          (/\ LookupStep(q)
           /\ call'[q].found
           /\ call[p].stored
           /\ call[p].configHash = call'[q].configHash)
          => /\ call[p].config = call'[q].config
             /\ Range(call[p].sshOpts) = Range(DefaultConfig.SSHOpts)
     /\ \A q \in Procs :
          (pc'[q] = "done" /\ ~call'[q].found /\ call'[q].ret # NilClient)
          => /\ call'[q].ret.id = q
             /\ call'[q].ret.host = call'[q].config.Host]_vars

\* C17: for every configuration and every outcome of the collaborators
\* the cache-miss path of MakeClient and Config.NewClient give the same
\* result: the same error, or a client of the same strategy with the same
\* host, transport and helper inputs.
C17_MakeClientAgreesWithNewClient ==
  fnRes.op = "NewClient" =>
    /\ fnRes.made.err = fnRes.r.err
    /\ fnRes.made.returned = (fnRes.r.err # ErrNone)
    /\ fnRes.made.dockerClient = fnRes.r.client

\* C18: resourceDockerVolumeDelete clears the resource ID only after a
\* VolumeRemove call has succeeded; while removal fails with "volume is in
\* use" the refresh reports in_use and removal is tried again until the
\* timeout; a MakeClient error or another removal error ends the wait with
\* an error and the resource ID stays.
C18_IdClearedOnlyAfterRemoval ==
  [][/\ vol'.id # vol.id
        => /\ vol'.id = Empty
           /\ vol.removed
           /\ vol.last = "removed"
           /\ vol.err = ErrNone
     /\ (vol.pc = "waiting" /\ vol'.tries # vol.tries /\ vol'.last = "in_use")
        => /\ vol'.pc = "waiting"
           /\ vol'.rpc = "wait"
           /\ vol'.id = VolName
     /\ (vol.rpc = "wait" /\ vol'.rpc # "wait")
        => \/ /\ vol'.rpc = "refresh"
              /\ vol'.pc = "waiting"
              /\ vol'.elapsed < volumeReadRefreshTimeout
           \/ /\ vol'.pc = "return"
              /\ vol'.err \in {ErrTimeout, ErrCtx}
              /\ vol'.err = ErrTimeout
                 => vol'.elapsed = volumeReadRefreshTimeout
     /\ vol'.last \in {"no_client", "error"}
        => /\ vol'.pc \in {"return", "done"}
           /\ vol'.err # ErrNone
           /\ vol'.id = VolName
     /\ (vol'.pc = "done" /\ vol'.err # ErrNone) => vol'.id = VolName]_vars

\* A volume in use at first, removed at a later try, and its ID cleared.
C18_Witness ==
  /\ vol.pc = "done"
  /\ vol.id = Empty
  /\ vol.tries >= 2
  /\ vol.removed
  /\ vol.err = ErrNone

====
